---- MODULE Spec2Model ----
(***************************************************************************)
(* Execution-based verification scorers of openbench: cruxeval_verify      *)
(* (src/openbench/scorers/cruxeval.py) and mbpp_verify                      *)
(* (src/openbench/scorers/mbpp.py).                                         *)
(*                                                                         *)
(* A Python str is a sequence of one-character strings.  Two characters    *)
(* that cannot be written in a TLA+ string literal are named: BQ is the    *)
(* backquote and ELLIPSIS is U+2026.  Python's None is NoneVal, a value    *)
(* that is no str.  Positions are 1-based; a search that fails returns 0   *)
(* where Python returns -1.                                                *)
(***************************************************************************)
EXTENDS Integers, Sequences, FiniteSets, TLC

BQ == "BACKQUOTE"
ELLIPSIS == "U+2026"
NoneVal == <<"None">>

(***************************************************************************)
(* Python str primitives used by the scorers.                              *)
(***************************************************************************)
\* the characters str.strip() and the regex class \s remove
WS == {" ", "\t", "\n", "\r", "\f"}

\* the characters at which str.splitlines() breaks
LineBreaks == {"\n", "\r", "\f"}

SetMin(S) == CHOOSE x \in S : \A y \in S : x <= y

SetMax(S) == CHOOSE x \in S : \A y \in S : x >= y

\* s.strip()
Strip(s) ==
  LET idx == {i \in 1..Len(s) : s[i] \notin WS}
  IN IF idx = {} THEN <<>> ELSE SubSeq(s, SetMin(idx), SetMax(idx))

\* s.rstrip()
RStrip(s) ==
  LET idx == {i \in 1..Len(s) : s[i] \notin WS}
  IN IF idx = {} THEN <<>> ELSE SubSeq(s, 1, SetMax(idx))

\* s.find(sub, start): the first position >= start where sub occurs, else 0
Find(s, sub, start) ==
  LET hits == {i \in start..(Len(s) - Len(sub) + 1) :
                 SubSeq(s, i, i + Len(sub) - 1) = sub}
  IN IF hits = {} THEN 0 ELSE SetMin(hits)

\* sub in s
Contains(s, sub) == Find(s, sub, 1) # 0

\* s.startswith(p)
StartsWith(s, p) == Len(s) >= Len(p) /\ SubSeq(s, 1, Len(p)) = p

\* s.endswith(p)
EndsWith(s, p) == Len(s) >= Len(p) /\ SubSeq(s, Len(s) - Len(p) + 1, Len(s)) = p

\* s[i:] for a 1-based i
From(s, i) == SubSeq(s, i, Len(s))

RECURSIVE Split(_, _)
\* s.split(sep): every piece between occurrences of sep
Split(s, sep) ==
  LET i == Find(s, sep, 1)
  IN IF i = 0 THEN <<s>>
     ELSE <<SubSeq(s, 1, i - 1)>> \o Split(From(s, i + Len(sep)), sep)

\* SplitOnce splitting at the last occurrence, s.rsplit(sep, 1) (a mutation that C19 must detect)
SplitOnce_AtLast(s, sep) ==
  LET hits == {i \in 1..(Len(s) - Len(sep) + 1) : SubSeq(s, i, i + Len(sep) - 1) = sep}
  IN IF hits = {} THEN <<s>>
     ELSE <<SubSeq(s, 1, SetMax(hits) - 1), From(s, SetMax(hits) + Len(sep))>>

\* s.split(sep, 1): split at the first occurrence only
SplitOnce(s, sep) ==
  LET i == Find(s, sep, 1)
  IN IF i = 0 THEN <<s>> ELSE <<SubSeq(s, 1, i - 1), From(s, i + Len(sep))>>

RECURSIVE Join(_, _)
\* sep.join(parts)
Join(parts, sep) ==
  IF Len(parts) = 0 THEN <<>>
  ELSE IF Len(parts) = 1 THEN parts[1]
  ELSE parts[1] \o sep \o Join(Tail(parts), sep)

RECURSIVE SplitLines(_)
\* s.splitlines(): pieces between line breaks, no empty piece after a final break
SplitLines(s) ==
  LET brk == {i \in 1..Len(s) : s[i] \in LineBreaks}
  IN IF s = <<>> THEN <<>>
     ELSE IF brk = {} THEN <<s>>
     ELSE <<SubSeq(s, 1, SetMin(brk) - 1)>> \o SplitLines(From(s, SetMin(brk) + 1))

\* [f(x) for x in xs]
StripEach(xs) == [i \in 1..Len(xs) |-> Strip(xs[i])]

\* [x for x in xs if x]
NonEmpty(xs) == SelectSeq(xs, LAMBDA x : x # <<>>)

\* str.lower() on the letters the patterns name
Lower(c) ==
  CASE c = "B" -> "b" [] c = "E" -> "e" [] c = "G" -> "g" [] c = "I" -> "i"
    [] c = "N" -> "n" [] c = "D" -> "d" [] c = "O" -> "o" [] c = "P" -> "p"
    [] c = "Y" -> "y" [] c = "T" -> "t" [] c = "H" -> "h" [] OTHER -> c

LowerStr(s) == [i \in 1..Len(s) |-> Lower(s[i])]

(***************************************************************************)
(* cruxeval.py: parsing helper routines.                                   *)
(***************************************************************************)
ANSWER_OPEN == <<"[", "A", "N", "S", "W", "E", "R", "]">>

ANSWER_CLOSE == <<"[", "/", "A", "N", "S", "W", "E", "R", "]">>

\* _between(s, open_tag, close_tag)
_between(s, open_tag, close_tag) ==
  LET i == Find(s, open_tag, 1)
      j == IF i = 0 THEN 0 ELSE Find(s, close_tag, i + Len(open_tag))
  IN IF i = 0 THEN NoneVal
     ELSE IF j = 0 THEN NoneVal
     ELSE Strip(SubSeq(s, i + Len(open_tag), j - 1))

\* _strip_first_fenced_block(s): the pattern ^```(?:python)?\s*\n(.*?)\n```$
\* with DOTALL and IGNORECASE, then group(1).strip().  The header is ```
\* and "python" when it follows; \s* then needs a newline inside the run of
\* whitespace after the header, and the text must end with newline ```.
_strip_first_fenced_block(s) ==
  LET ticks == <<BQ, BQ, BQ>>
      hdr == IF Len(s) >= 9 /\ LowerStr(SubSeq(s, 4, 9)) = <<"p", "y", "t", "h", "o", "n">> THEN 10 ELSE 4
      close == Len(s) - 3
      opens == {k \in hdr..(close - 1) :
                  s[k] = "\n" /\ \A m \in hdr..k : s[m] \in WS}
  IN IF StartsWith(s, ticks) /\ EndsWith(s, <<"\n">> \o ticks) /\ opens # {}
     THEN Strip(SubSeq(s, SetMax(opens) + 1, close - 1))
     ELSE s

\* _first_f_call(text): re.search(r"f\s*\((.*)\)", text); the match starts at
\* the first f that is followed by whitespace, "(" and a ")" on the same
\* line, and the greedy group runs to the last such ")".  The result is
\* "f(" + group(1).strip(): the closing parenthesis is not put back.
_first_f_call(text) ==
  LET paren(i) == SetMin({k \in (i + 1)..(Len(text) + 1) :
                            k = Len(text) + 1 \/ text[k] \notin WS})
      closes(k) == {j \in (k + 1)..Len(text) :
                      text[j] = ")" /\ \A m \in (k + 1)..(j - 1) : text[m] # "\n"}
      starts == {i \in 1..Len(text) :
                   /\ text[i] = "f"
                   /\ paren(i) <= Len(text)
                   /\ text[paren(i)] = "("
                   /\ closes(paren(i)) # {}}
      k0 == paren(SetMin(starts))
  IN IF starts = {} THEN NoneVal
     ELSE <<"f", "(">> \o Strip(SubSeq(text, k0 + 1, SetMax(closes(k0)) - 1))

\* extract_candidate(completion, mode, variant)
extract_candidate(completion, mode, variant) ==
  LET text == Strip(completion)
      tagged == _between(text, ANSWER_OPEN, ANSWER_CLOSE)
      lines == NonEmpty(StripEach(SplitLines(text)))
      inside == IF tagged = NoneVal
                THEN (IF Len(lines) > 0 THEN lines[Len(lines)] ELSE <<>>)
                ELSE tagged
      s == _strip_first_fenced_block(Strip(inside))
      kw == <<"a", "s", "s", "e", "r", "t", " ">>
      parts == StripEach(Split(From(s, Len(kw) + 1), <<"=", "=">>))
      call == _first_f_call(s)
  IN IF StartsWith(s, kw) /\ Len(parts) >= 2
     THEN IF mode = "output" THEN parts[2]
          ELSE IF Contains(parts[1], <<"f", "(">>) THEN parts[1] ELSE call
     ELSE IF mode = "output"
          THEN IF Contains(s, <<"=", "=">>) THEN Strip(SplitOnce(s, <<"=", "=">>)[2]) ELSE s
          ELSE IF call # NoneVal THEN call ELSE s

(***************************************************************************)
(* mbpp.py: code extraction and program assembly.                          *)
(***************************************************************************)
\* _BEGIN_DONE_RE.search(completion): \[BEGIN\]([\s\S]*?)\[DONE\], IGNORECASE.
\* The result is <<first, last>>, the span of the group, or <<>> for no match.
_BEGIN_DONE_RE(completion) ==
  LET low == LowerStr(completion)
      i == Find(low, <<"[", "b", "e", "g", "i", "n", "]">>, 1)
      j == IF i = 0 THEN 0 ELSE Find(low, <<"[", "d", "o", "n", "e", "]">>, i + 7)
  IN IF i = 0 \/ j = 0 THEN <<>> ELSE <<i + 7, j - 1>>

\* _FENCED_RE.search(completion): ```(?:python|py)?\s*([\s\S]*?)```, IGNORECASE.
\* The result is <<first, last>>, the span of the group, or <<>> for no match.
_FENCED_RE(completion) ==
  LET low == LowerStr(completion)
      ticks == <<BQ, BQ, BQ>>
      i == Find(low, ticks, 1)
      hdr == IF Len(low) >= i + 8 /\ SubSeq(low, i + 3, i + 8) = <<"p", "y", "t", "h", "o", "n">> THEN i + 9
             ELSE IF Len(low) >= i + 4 /\ SubSeq(low, i + 3, i + 4) = <<"p", "y">> THEN i + 5
             ELSE i + 3
      body == SetMin({k \in hdr..(Len(low) + 1) : k = Len(low) + 1 \/ low[k] \notin WS})
      j == IF i = 0 THEN 0 ELSE Find(low, ticks, body)
  IN IF i = 0 \/ j = 0 THEN <<>> ELSE <<body, j - 1>>

\* _extract_code(completion)
_extract_code(completion) ==
  LET bd == _BEGIN_DONE_RE(completion)
      fenced == _FENCED_RE(completion)
  IN IF completion = NoneVal \/ completion = <<>> THEN <<>>
     ELSE IF bd # <<>> THEN Strip(SubSeq(completion, bd[1], bd[2]))
     ELSE IF fenced # <<>> THEN Strip(SubSeq(completion, fenced[1], fenced[2]))
     ELSE Strip(completion)

\* _normalize_tests(tests); tests is [kind |-> "none"], [kind |-> "list", val |-> a
\* list of str], [kind |-> "str", val |-> a str] or [kind |-> "other"]
_normalize_tests(tests) ==
  IF tests.kind = "list"
  THEN NonEmpty([i \in 1..Len(tests.val) |-> RStrip(tests.val[i])])
  ELSE IF tests.kind = "str"
  THEN LET lines == SelectSeq(SplitLines(tests.val), LAMBDA ln : Strip(ln) # <<>>)
       IN [i \in 1..Len(lines) |-> RStrip(lines[i])]
  ELSE <<>>

\* _assemble_program with the tests put before the candidate (a mutation that
\* C21 must detect)
_assemble_program_TestsFirst(setup, candidate_code, tests) ==
  LET parts == (IF setup # NoneVal /\ setup # <<>> /\ Strip(setup) # <<>>
                THEN <<Strip(setup)>> ELSE <<>>)
               \o (IF tests # <<>> THEN <<Join(tests, <<"\n">>)>> ELSE <<>>)
               \o <<Strip(candidate_code)>>
  IN Join(parts, <<"\n", "\n">>)

\* _assemble_program(setup=, candidate_code=, tests=)
_assemble_program(setup, candidate_code, tests) ==
  LET parts == (IF setup # NoneVal /\ setup # <<>> /\ Strip(setup) # <<>>
                THEN <<Strip(setup)>> ELSE <<>>)
               \o <<Strip(candidate_code)>>
               \o (IF tests # <<>> THEN <<Join(tests, <<"\n">>)>> ELSE <<>>)
  IN Join(parts, <<"\n", "\n">>)

\* _truncate(s, n)
_truncate(s, n) ==
  IF Len(s) <= n THEN s ELSE SubSeq(s, 1, n - 3) \o <<".", ".", ".">>

(***************************************************************************)
(* The child process: python -c <program> in the sandbox.  The programs    *)
(* cruxeval_verify builds are Code, a newline and one assert line.  Their  *)
(* exit status is decided here for the statements made of integer          *)
(* literals, calls f(<integer>) and "==" (Python chains comparisons), and  *)
(* for unbalanced parentheses (a SyntaxError); for any other text the      *)
(* status is left open and the process may exit either way.                *)
(***************************************************************************)
\* metadata "code": the function under test, as in the spec's scenarios
Code == <<"d", "e", "f", " ", "f", "(", "n", ")", ":", "\n", " ", " ", " ", " ", "r", "e", "t", "u", "r", "n", " ", "n", "/", "/", "2">>

\* the function that Code defines
RefF(n) == n \div 2

Digits == {"0", "1", "2", "3", "4", "5", "6", "7", "8", "9"}

DigitVal(c) ==
  CASE c = "0" -> 0 [] c = "1" -> 1 [] c = "2" -> 2 [] c = "3" -> 3 [] c = "4" -> 4
    [] c = "5" -> 5 [] c = "6" -> 6 [] c = "7" -> 7 [] c = "8" -> 8 [] c = "9" -> 9

RECURSIVE DecValue(_)
\* int(s) for a string of digits
DecValue(s) ==
  IF Len(s) = 0 THEN 0
  ELSE 10 * DecValue(SubSeq(s, 1, Len(s) - 1)) + DigitVal(s[Len(s)])

\* s without the blanks around it (blanks separate Python tokens on a line)
TrimSp(s) ==
  LET idx == {i \in 1..Len(s) : s[i] # " "}
  IN IF idx = {} THEN <<>> ELSE SubSeq(s, SetMin(idx), SetMax(idx))

\* a decimal integer literal
IsIntLiteral(s) ==
  /\ s # <<>>
  /\ \A i \in 1..Len(s) : s[i] \in Digits
  /\ (s[1] # "0" \/ \A i \in 1..Len(s) : s[i] = "0")

\* a call f(<integer literal>), blanks allowed between the tokens
IsCallOfF(s) ==
  LET open == Find(s, <<"(">>, 1)
  IN /\ Len(s) >= 4
     /\ s[1] = "f"
     /\ open >= 2
     /\ \A m \in 2..(open - 1) : s[m] = " "
     /\ s[Len(s)] = ")"
     /\ IsIntLiteral(TrimSp(SubSeq(s, open + 1, Len(s) - 1)))

\* the argument of such a call
CallArg(s) == TrimSp(SubSeq(s, Find(s, <<"(">>, 1) + 1, Len(s) - 1))

IsAtom(s) == IsIntLiteral(TrimSp(s)) \/ IsCallOfF(TrimSp(s))

\* the value of an atom under Code
AtomValue(s) ==
  IF IsIntLiteral(TrimSp(s)) THEN DecValue(TrimSp(s))
  ELSE RefF(DecValue(CallArg(TrimSp(s))))

\* a == b == c ... : the operands, when every one is an atom, else <<>>
ChainOf(expr) ==
  LET ops == Split(expr, <<"=", "=">>)
  IN IF \A i \in 1..Len(ops) : IsAtom(ops[i]) THEN ops ELSE <<>>

\* the truth of a chained comparison of atoms
ChainHolds(ops) ==
  \A i \in 1..(Len(ops) - 1) : AtomValue(ops[i]) = AtomValue(ops[i + 1])

\* the value of an expression that is an atom or a chain (True is 1, False is 0)
ExprValue(expr) ==
  LET ops == ChainOf(expr)
  IN IF Len(ops) = 1 THEN AtomValue(ops[1])
     ELSE IF ChainHolds(ops) THEN 1 ELSE 0

Count(s, c) == Cardinality({i \in 1..Len(s) : s[i] = c})

\* how python -c <program> ends: "pass" (exit 0), "fail" (non-zero), "unknown"
PyRun(program) ==
  LET head == Code \o <<"\n">>
      body == From(program, Len(head) + 1)
      stmt == IF EndsWith(body, <<"\n">>) THEN SubSeq(body, 1, Len(body) - 1) ELSE body
      kw == <<"a", "s", "s", "e", "r", "t", " ">>
      ops == ChainOf(From(stmt, Len(kw) + 1))
  IN IF ~StartsWith(program, head) THEN "unknown"
     ELSE IF Count(body, "(") # Count(body, ")") THEN "fail"
     ELSE IF StartsWith(stmt, kw) /\ Len(ops) >= 2
          THEN (IF ChainHolds(ops) THEN "pass" ELSE "fail")
     ELSE "unknown"

\* ExecResult(success, returncode, stdout, stderr)
ExecResult(success, returncode, stdout, stderr) ==
  [success |-> success, returncode |-> returncode, stdout |-> stdout, stderr |-> stderr]

NoResult == ExecResult(FALSE, 0, <<>>, <<>>)

\* what the interpreter writes to stderr when the program fails
Traceback == <<"A", "s", "s", "e", "r", "t", "i", "o", "n", "E", "r", "r", "o", "r">>

ExitZero == ExecResult(TRUE, 0, <<>>, <<>>)

ExitNonZero == ExecResult(FALSE, 1, <<>>, Traceback)

\* the results sandbox().exec can return for a cruxeval program
CruxProcessResults(program) ==
  IF PyRun(program) = "pass" THEN {ExitZero}
  ELSE IF PyRun(program) = "fail" THEN {ExitNonZero}
  ELSE {ExitZero, ExitNonZero}

\* the results sandbox().exec can return for an mbpp program
MbppProcessResults(program) == {ExitZero, ExitNonZero}

\* the exception sandbox().exec raises when the time budget is exceeded
TimeoutError == [type |-> <<"T", "i", "m", "e", "o", "u", "t", "E", "r", "r", "o", "r">>, msg |-> <<>>]

\* the exception raised at the await of sandbox().exec when the caller cancels
\* the verification: a BaseException that is no Exception
CancelledError == [type |-> <<"C", "a", "n", "c", "e", "l", "l", "e", "d", "E", "r", "r", "o", "r">>, msg |-> <<>>]

\* exceptions sandbox().exec raises when the process cannot be launched
LaunchErrors == {[type |-> <<"O", "S", "E", "r", "r", "o", "r">>, msg |-> <<"E", "N", "O", "M", "E", "M">>]}

(***************************************************************************)
(* cruxeval.py: the scorer.                                                *)
(***************************************************************************)
CORRECT == "C"

INCORRECT == "I"

TIMEOUT == 3

\* Score(value=, answer=, explanation=, metadata=)
Score(value, answer, explanation, metadata) ==
  [value |-> value, answer |-> answer, explanation |-> explanation, metadata |-> metadata]

\* Score.metadata when none is given
NoMetadata == <<>>

NoScore == Score("", <<>>, <<>>, NoMetadata)

\* _incorrect(explanation)
_incorrect(explanation) == Score(INCORRECT, <<>>, explanation, NoMetadata)

\* _fmt_expl(code, ref_input, ref_output, candidate, note)
_fmt_expl(code, ref_input, ref_output, candidate, note) ==
  LET shown == IF ref_input # <<>> /\ StartsWith(note, <<"A", "s", "s", "e", "r", "t", "i", "o", "n", " ", "p", "a", "s", "s", "e", "d">>)
               THEN <<"f", "(">> \o ref_input \o <<")">>
               ELSE IF ref_input # <<>> THEN <<"f", "(">> \o ref_input \o <<")">>
               ELSE ref_output
  IN <<"T", "h", "e", " ", "f", "o", "l", "l", "o", "w", "i", "n", "g", " ", "v", "e", "r", "i", "f", "i", "c", "a", "t", "i", "o", "n", " ", "c", "o", "d", "e", " ", "w", "a", "s", " ", "e", "x", "e", "c", "u", "t", "e", "d", ":", "\n", "\n">>
     \o <<BQ, BQ, BQ, "p", "y", "t", "h", "o", "n", "\n">>
     \o code
     \o <<"\n">>
     \o <<"a", "s", "s", "e", "r", "t", " ">> \o shown \o <<" ", "=", "=", " ">> \o candidate
     \o <<"\n", BQ, BQ, BQ>>
     \o <<"\n", "\n">> \o note

MissingCallNote == <<"M", "i", "s", "s", "i", "n", "g", " ", "f", "(", ELLIPSIS, ")", " ", "c", "a", "l", "l", " ", "i", "n", " ", "i", "n", "p", "u", "t", "-", "p", "r", "e", "d", "i", "c", "t", "i", "o", "n", ".">>

EchoNote == <<"O", "u", "t", "p", "u", "t", " ", "m", "o", "d", "e", " ", "e", "x", "p", "e", "c", "t", "s", " ", "a", " ", "l", "i", "t", "e", "r", "a", "l", " ", "R", "H", "S", ",", " ", "n", "o", "t", " ", "a", " ", "f", "u", "n", "c", "t", "i", "o", "n", " ", "c", "a", "l", "l", ".">>

UnknownModeExpl == <<"U", "n", "k", "n", "o", "w", "n", " ", "m", "o", "d", "e", ";", " ", "e", "x", "p", "e", "c", "t", "e", "d", " ", "'", "i", "n", "p", "u", "t", "'", " ", "o", "r", " ", "'", "o", "u", "t", "p", "u", "t", "'", ".">>

PassedNote == <<"A", "s", "s", "e", "r", "t", "i", "o", "n", " ", "p", "a", "s", "s", "e", "d", ".">>

\* f"Assertion failed.\n\n{result.stderr or ''}".strip()
FailedNote(result) == Strip(<<"A", "s", "s", "e", "r", "t", "i", "o", "n", " ", "f", "a", "i", "l", "e", "d", ".", "\n", "\n">> \o result.stderr)

\* CruxGate with the unknown mode let through to execution (a mutation that C3
\* must detect)
CruxGate_UnknownModeRuns(mode, candidate, ref_input) ==
  IF mode = "input"
  THEN IF candidate = NoneVal THEN "raise"
       ELSE IF ~Contains(candidate, <<"f", "(">>) THEN "missing_call" ELSE "run"
  ELSE IF mode = "output"
  THEN IF candidate = NoneVal THEN "raise"
       ELSE IF Contains(candidate, <<"f", "(">> \o ref_input \o <<")">>) THEN "echo" ELSE "run"
  ELSE "run"

\* the structural checks of score: "raise" when the membership test is applied
\* to None (TypeError), else the branch taken
CruxGate(mode, candidate, ref_input) ==
  IF mode = "input"
  THEN IF candidate = NoneVal THEN "raise"
       ELSE IF ~Contains(candidate, <<"f", "(">>) THEN "missing_call" ELSE "run"
  ELSE IF mode = "output"
  THEN IF candidate = NoneVal THEN "raise"
       ELSE IF Contains(candidate, <<"f", "(">> \o ref_input \o <<")">>) THEN "echo" ELSE "run"
  ELSE "unknown_mode"

\* the Score returned by a structural check that fails
CruxRejection(gate, code, ref_input, ref_output, candidate) ==
  IF gate = "missing_call"
  THEN _incorrect(_fmt_expl(code, ref_input, ref_output, candidate, MissingCallNote))
  ELSE IF gate = "echo"
  THEN _incorrect(_fmt_expl(code, ref_input, ref_output, candidate, EchoNote))
  ELSE _incorrect(UnknownModeExpl)

\* Expected with the metadata fields exchanged (a mutation that C8 must detect)
Expected_WrongField(mode, ref_input, ref_output) ==
  IF mode = "output" THEN <<"f", "(">> \o ref_output \o <<")">> ELSE ref_input

\* expected: the left-hand side of the assertion
Expected(mode, ref_input, ref_output) ==
  IF mode = "output" THEN <<"f", "(">> \o ref_input \o <<")">> ELSE ref_output

\* verify_code comparing the candidate with itself (a mutation that C7 must
\* detect)
verify_code_SelfCompare(code, expected, candidate) ==
  code \o <<"\n">> \o <<"a", "s", "s", "e", "r", "t", " ">> \o candidate \o <<" ", "=", "=", " ">> \o candidate \o <<"\n">>

\* "".join(verify_code)
verify_code(code, expected, candidate) ==
  code \o <<"\n">> \o <<"a", "s", "s", "e", "r", "t", " ">> \o expected \o <<" ", "=", "=", " ">> \o candidate \o <<"\n">>

\* CruxFold reporting success (a mutation that C4 must detect)
CruxFold_AsSuccess(e) == ExecResult(TRUE, 0, <<>>, <<"E", "r", "r", "o", "r", " ", "a", "r", "o", "s", "e", ".">>)

\* the except clause of score: any exception becomes a failed ExecResult
CruxFold(e) == ExecResult(FALSE, 1, <<>>, <<"E", "r", "r", "o", "r", " ", "a", "r", "o", "s", "e", ".">>)

\* the Score built from the ExecResult
CruxResolve(result, code, ref_input, ref_output, candidate) ==
  IF result.success
  THEN Score(CORRECT, candidate,
             _fmt_expl(code, ref_input, ref_output, candidate, PassedNote), NoMetadata)
  ELSE _incorrect(_fmt_expl(code, ref_input, ref_output, candidate, FailedNote(result)))

(***************************************************************************)
(* mbpp.py: the scorer.                                                    *)
(***************************************************************************)
\* the default of mbpp_verify's parameter timeout
DefaultTimeout == 6

\* the length the prompt is cut to in the metadata
PromptLimit == 400

\* metadata "task_id" and "prompt" of the sample
TaskId == 11

Prompt == <<"W", "r", "i", "t", "e", " ", "a", " ", "f", "u", "n", "c", "t", "i", "o", "n">>

\* the Score of a completion that holds no code
MbppNoCandidate(setup, tests) ==
  Score(INCORRECT, <<>>,
        <<"N", "o", " ", "c", "a", "n", "d", "i", "d", "a", "t", "e", " ", "c", "o", "d", "e", " ", "f", "o", "u", "n", "d", ".", "\n", "\n">>
        \o <<"T", "h", "e", " ", "f", "o", "l", "l", "o", "w", "i", "n", "g", " ", "v", "e", "r", "i", "f", "i", "c", "a", "t", "i", "o", "n", " ", "c", "o", "d", "e", " ", "w", "a", "s", " ", "e", "x", "e", "c", "u", "t", "e", "d", ":", "\n", "\n", BQ, BQ, BQ, "p", "y", "t", "h", "o", "n", "\n">>
        \o _assemble_program(setup, <<>>, tests)
        \o <<"\n", BQ, BQ, BQ, "\n">>,
        [task_id |-> TaskId])

\* except TimeoutError
MbppFoldTimeout == ExecResult(FALSE, 1, <<>>, <<"V", "e", "r", "i", "f", "i", "c", "a", "t", "i", "o", "n", " ", "t", "i", "m", "e", "d", " ", "o", "u", "t", ".">>)

\* except Exception as e: f"{type(e).__name__}: {e}"
MbppFoldError(e) == ExecResult(FALSE, 1, <<>>, e.type \o <<":", " ">> \o e.msg)

\* passed = bool(result.success)
MbppPassed(result) == result.success

\* the Score built from the ExecResult
MbppResolve(result, program, candidate, tests, timeout) ==
  LET passed == MbppPassed(result)
  IN Score(IF passed THEN CORRECT ELSE INCORRECT,
           candidate,
           <<"T", "h", "e", " ", "f", "o", "l", "l", "o", "w", "i", "n", "g", " ", "v", "e", "r", "i", "f", "i", "c", "a", "t", "i", "o", "n", " ", "c", "o", "d", "e", " ", "w", "a", "s", " ", "e", "x", "e", "c", "u", "t", "e", "d", ":", "\n", "\n", BQ, BQ, BQ, "p", "y", "t", "h", "o", "n", "\n">>
           \o program
           \o <<"\n", BQ, BQ, BQ, "\n">>
           \o (IF ~passed THEN <<"T", "h", "e", " ", "s", "u", "b", "m", "i", "s", "s", "i", "o", "n", " ", "w", "a", "s", " ", "i", "n", "c", "o", "r", "r", "e", "c", "t", ".", "\n", "\n">> \o result.stderr
               ELSE <<>>),
           [task_id |-> TaskId,
            prompt |-> _truncate(Prompt, PromptLimit),
            tests_count |-> Len(tests),
            timeout_s |-> timeout,
            exit_success |-> passed])

(***************************************************************************)
(* One verification: the samples it may be given, and its steps.           *)
(***************************************************************************)
\* the longest completion, in fragments
MaxFrags == 3

\* pieces of a model's answer to a CRUXEval sample
CruxFrags ==
  {<<"a", "s", "s", "e", "r", "t", " ">>, <<"f", "(", "6", ")">>, <<"f", " ", "(", "6", ")">>, <<" ", "=", "=", " ", "3">>, <<"3">>, <<"\n">>,
   ANSWER_OPEN, ANSWER_CLOSE, <<BQ, BQ, BQ, "p", "y", "t", "h", "o", "n", "\n", "3", "\n", BQ, BQ, BQ>>}

\* pieces of a model's answer to an MBPP sample
MbppFrags == {<<"[", "B", "E", "G", "I", "N", "]">>, <<"[", "D", "O", "N", "E", "]">>, <<BQ, BQ, BQ>>, <<"p", "a", "s", "s">>, <<"\n">>}

\* state.output.completion: None or up to MaxFrags fragments
Completions(frags) ==
  {NoneVal} \cup
  {Join(fs, <<>>) : fs \in UNION {[1..n -> frags] : n \in 0..MaxFrags}}

\* metadata "ref_input" and "ref_output" of the CRUXEval samples (f halves)
CruxRecords ==
  {[ref_input |-> <<"6">>, ref_output |-> <<"3">>],
   [ref_input |-> <<"7">>, ref_output |-> <<"3">>],
   [ref_input |-> <<"3">>, ref_output |-> <<"1">>]}

\* metadata "mode": the two known modes and an unknown one
Modes == {"input", "output", "other"}

\* metadata "variant"; extraction does not read it
Variant == "direct"

\* metadata "setup" of the MBPP samples
Setups == {NoneVal, <<>>, <<" ", "\n">>, <<"i", "m", "p", "o", "r", "t", " ", "r", "e">>}

\* metadata "tests" of the MBPP samples
TestInputs ==
  {[kind |-> "none"],
   [kind |-> "list", val |-> <<<<"a", "s", "s", "e", "r", "t", " ", "g", "(", "1", ")">>, <<"a", "s", "s", "e", "r", "t", " ", "g", "(", "2", ")">>>>],
   [kind |-> "list", val |-> <<<<"a", "s", "s", "e", "r", "t", " ", "g", "(", "2", ")", " ">>, <<" ">>, <<"a", "s", "s", "e", "r", "t", " ", "g", "(", "1", ")">>>>],
   [kind |-> "str", val |-> <<"a", "s", "s", "e", "r", "t", " ", "g", "(", "1", ")", "\n", "\n">>]}

NoTests == [kind |-> "none"]

NoCall == [cmd |-> <<>>, timeout |-> 0]

NoOutcome == [kind |-> "none", error |-> <<>>]

VARIABLES
  scorer,      \* "cruxeval" or "mbpp": the scorer that runs
  mode,        \* cruxeval: state.metadata["mode"]
  completion,  \* state.output.completion
  ref_input,   \* cruxeval: state.metadata["ref_input"]
  ref_output,  \* cruxeval: state.metadata["ref_output"]
  setup,       \* mbpp: state.metadata["setup"]
  tests,       \* mbpp: state.metadata["tests"]
  pc,          \* "pending", "awaiting" (suspended in sandbox().exec), "done",
               \* "raised", "cancelled" (ended by the caller's cancellation)
  candidate,   \* the extracted candidate
  call,        \* the arguments of sandbox().exec: cmd is the program text
  outcome,     \* how the await of sandbox().exec ended: kind is "exit0", "nonzero",
               \* "timeout", "launchfail" or "cancelled"; error is the text of
               \* the exception
  result,      \* the ExecResult the scorer goes on with
  score,       \* the Score returned
  execCount,   \* the number of calls of sandbox().exec
  raised,      \* the exception that left score, "" when none
  taskInput,   \* concurrent verifications: the sample of each task
  taskPc,      \* the position of each task, as pc
  frames,      \* the local variables of score, one frame per call
  taskCall,    \* the arguments of each task's call of sandbox().exec
  taskOutcome, \* how each task's await of sandbox().exec ended
  taskScore,   \* the Score each task returned
  overlapped   \* history: another task ran while this one was suspended

vars ==
  <<scorer, mode, completion, ref_input, ref_output, setup, tests, pc, candidate,
    call, outcome, result, score, execCount, raised,
    taskInput, taskPc, frames, taskCall, taskOutcome, taskScore, overlapped>>

inputs == <<scorer, mode, completion, ref_input, ref_output, setup, tests>>

tasks == <<taskInput, taskPc, frames, taskCall, taskOutcome, taskScore, overlapped>>

\* no concurrent verifications
NoTasks ==
  /\ taskInput = <<>>
  /\ taskPc = <<>>
  /\ frames = <<>>
  /\ taskCall = <<>>
  /\ taskOutcome = <<>>
  /\ taskScore = <<>>
  /\ overlapped = <<>>

Init ==
  /\ \/ /\ scorer = "cruxeval"
        /\ completion \in Completions(CruxFrags)
        /\ mode \in Modes
        /\ \E r \in CruxRecords : ref_input = r.ref_input /\ ref_output = r.ref_output
        /\ setup = NoneVal
        /\ tests = NoTests
     \/ /\ scorer = "mbpp"
        /\ completion \in Completions(MbppFrags)
        /\ setup \in Setups
        /\ tests \in TestInputs
        /\ mode = ""
        /\ ref_input = <<>>
        /\ ref_output = <<>>
  /\ pc = "pending"
  /\ candidate = <<>>
  /\ call = NoCall
  /\ outcome = NoOutcome
  /\ result = NoResult
  /\ score = NoScore
  /\ execCount = 0
  /\ raised = ""
  /\ NoTasks

\* raw = state.output.completion or ""
CruxRaw == IF completion = NoneVal THEN <<>> ELSE completion

\* candidate = extract_candidate(raw, mode=mode, variant=variant)
CruxCandidate == extract_candidate(CruxRaw, mode, Variant)

\* score of cruxeval_verify: a structural check fails and the Score is returned
CruxReject ==
  /\ pc = "pending"
  /\ scorer = "cruxeval"
  /\ CruxGate(mode, CruxCandidate, ref_input) \in {"missing_call", "echo", "unknown_mode"}
  /\ candidate' = CruxCandidate
  /\ score' = CruxRejection(CruxGate(mode, CruxCandidate, ref_input),
                            Code, ref_input, ref_output, CruxCandidate)
  /\ pc' = "done"
  /\ UNCHANGED <<inputs, tasks, call, outcome, result, execCount, raised>>

\* score of cruxeval_verify: the structural check itself raises
CruxRaise ==
  /\ pc = "pending"
  /\ scorer = "cruxeval"
  /\ CruxGate(mode, CruxCandidate, ref_input) = "raise"
  /\ candidate' = CruxCandidate
  /\ raised' = "TypeError"
  /\ pc' = "raised"
  /\ UNCHANGED <<inputs, tasks, call, outcome, result, score, execCount>>

\* score of cruxeval_verify: the program is built and handed to sandbox().exec
CruxExec ==
  /\ pc = "pending"
  /\ scorer = "cruxeval"
  /\ CruxGate(mode, CruxCandidate, ref_input) = "run"
  /\ candidate' = CruxCandidate
  /\ call' = [cmd |-> verify_code(Code, Expected(mode, ref_input, ref_output), CruxCandidate),
              timeout |-> TIMEOUT]
  /\ execCount' = execCount + 1
  /\ pc' = "awaiting"
  /\ UNCHANGED <<inputs, tasks, outcome, result, score, raised>>

\* sandbox().exec returns an ExecResult and score returns the Score
CruxExecReturns ==
  /\ pc = "awaiting"
  /\ scorer = "cruxeval"
  /\ \E r \in CruxProcessResults(call.cmd) :
       /\ outcome' = [kind |-> IF r.success THEN "exit0" ELSE "nonzero", error |-> <<>>]
       /\ result' = r
       /\ score' = CruxResolve(r, Code, ref_input, ref_output, candidate)
  /\ pc' = "done"
  /\ UNCHANGED <<inputs, tasks, candidate, call, execCount, raised>>

\* sandbox().exec raises TimeoutError; the bare except takes it
CruxExecTimesOut ==
  /\ pc = "awaiting"
  /\ scorer = "cruxeval"
  /\ outcome' = [kind |-> "timeout", error |-> TimeoutError.msg]
  /\ result' = CruxFold(TimeoutError)
  /\ score' = CruxResolve(CruxFold(TimeoutError), Code, ref_input, ref_output, candidate)
  /\ pc' = "done"
  /\ UNCHANGED <<inputs, tasks, candidate, call, execCount, raised>>

\* sandbox().exec raises because the process cannot start; the bare except takes it
CruxExecFailsToLaunch ==
  /\ pc = "awaiting"
  /\ scorer = "cruxeval"
  /\ \E e \in LaunchErrors :
       /\ outcome' = [kind |-> "launchfail", error |-> e.msg]
       /\ result' = CruxFold(e)
       /\ score' = CruxResolve(CruxFold(e), Code, ref_input, ref_output, candidate)
  /\ pc' = "done"
  /\ UNCHANGED <<inputs, tasks, candidate, call, execCount, raised>>

\* the caller cancels the verification while it awaits sandbox().exec; the
\* bare except takes the CancelledError and score goes on to return a Score
CruxExecCancelled ==
  /\ pc = "awaiting"
  /\ scorer = "cruxeval"
  /\ outcome' = [kind |-> "cancelled", error |-> CancelledError.msg]
  /\ result' = CruxFold(CancelledError)
  /\ score' = CruxResolve(CruxFold(CancelledError), Code, ref_input, ref_output, candidate)
  /\ pc' = "done"
  /\ UNCHANGED <<inputs, tasks, candidate, call, execCount, raised>>

\* raw = state.output.completion if state.output else ""; _extract_code(raw)
MbppCandidate == _extract_code(completion)

\* score of mbpp_verify: no candidate code, the Score is returned
MbppReject ==
  /\ pc = "pending"
  /\ scorer = "mbpp"
  /\ MbppCandidate = <<>>
  /\ candidate' = MbppCandidate
  /\ score' = MbppNoCandidate(setup, _normalize_tests(tests))
  /\ pc' = "done"
  /\ UNCHANGED <<inputs, tasks, call, outcome, result, execCount, raised>>

\* score of mbpp_verify: the program is assembled and handed to sandbox().exec
MbppExec ==
  /\ pc = "pending"
  /\ scorer = "mbpp"
  /\ MbppCandidate # <<>>
  /\ candidate' = MbppCandidate
  /\ call' = [cmd |-> _assemble_program(setup, MbppCandidate, _normalize_tests(tests)),
              timeout |-> DefaultTimeout]
  /\ execCount' = execCount + 1
  /\ pc' = "awaiting"
  /\ UNCHANGED <<inputs, tasks, outcome, result, score, raised>>

\* sandbox().exec returns an ExecResult and score returns the Score
MbppExecReturns ==
  /\ pc = "awaiting"
  /\ scorer = "mbpp"
  /\ \E r \in MbppProcessResults(call.cmd) :
       /\ outcome' = [kind |-> IF r.success THEN "exit0" ELSE "nonzero", error |-> <<>>]
       /\ result' = r
       /\ score' = MbppResolve(r, call.cmd, candidate, _normalize_tests(tests), call.timeout)
  /\ pc' = "done"
  /\ UNCHANGED <<inputs, tasks, candidate, call, execCount, raised>>

\* sandbox().exec raises TimeoutError: except TimeoutError
MbppExecTimesOut ==
  /\ pc = "awaiting"
  /\ scorer = "mbpp"
  /\ outcome' = [kind |-> "timeout", error |-> TimeoutError.msg]
  /\ result' = MbppFoldTimeout
  /\ score' = MbppResolve(MbppFoldTimeout, call.cmd, candidate,
                          _normalize_tests(tests), call.timeout)
  /\ pc' = "done"
  /\ UNCHANGED <<inputs, tasks, candidate, call, execCount, raised>>

\* sandbox().exec raises because the process cannot start: except Exception as e
MbppExecFailsToLaunch ==
  /\ pc = "awaiting"
  /\ scorer = "mbpp"
  /\ \E e \in LaunchErrors :
       /\ outcome' = [kind |-> "launchfail", error |-> e.msg]
       /\ result' = MbppFoldError(e)
       /\ score' = MbppResolve(MbppFoldError(e), call.cmd, candidate,
                               _normalize_tests(tests), call.timeout)
  /\ pc' = "done"
  /\ UNCHANGED <<inputs, tasks, candidate, call, execCount, raised>>

\* the caller cancels the verification while it awaits sandbox().exec; neither
\* except TimeoutError nor except Exception takes the CancelledError, which
\* ends score without a Score
MbppExecCancelled ==
  /\ pc = "awaiting"
  /\ scorer = "mbpp"
  /\ outcome' = [kind |-> "cancelled", error |-> CancelledError.msg]
  /\ pc' = "cancelled"
  /\ UNCHANGED <<inputs, tasks, candidate, call, result, score, execCount, raised>>

Next ==
  \/ CruxReject
  \/ CruxRaise
  \/ CruxExec
  \/ CruxExecReturns
  \/ CruxExecTimesOut
  \/ CruxExecFailsToLaunch
  \/ CruxExecCancelled
  \/ MbppReject
  \/ MbppExec
  \/ MbppExecReturns
  \/ MbppExecTimesOut
  \/ MbppExecFailsToLaunch
  \/ MbppExecCancelled

Spec == Init /\ [][Next]_vars

(***************************************************************************)
(* Several verifications at once: each call of score is a coroutine that   *)
(* is suspended at the await of sandbox().exec, where the others may run.  *)
(***************************************************************************)
\* the number of verifications that run concurrently
NumTasks == 2

Tasks == 1..NumTasks

\* the samples the concurrent verifications are given
ConcSamples ==
  {[scorer |-> "cruxeval", mode |-> "input", completion |-> <<"a", "s", "s", "e", "r", "t", " ", "f", "(", "6", ")", " ", "=", "=", " ", "3">>,
    ref_input |-> <<"6">>, ref_output |-> <<"3">>, setup |-> NoneVal, tests |-> NoTests],
   [scorer |-> "cruxeval", mode |-> "output", completion |-> <<"3">>,
    ref_input |-> <<"7">>, ref_output |-> <<"3">>, setup |-> NoneVal, tests |-> NoTests],
   [scorer |-> "cruxeval", mode |-> "output", completion |-> <<"f", "(", "3", ")">>,
    ref_input |-> <<"3">>, ref_output |-> <<"1">>, setup |-> NoneVal, tests |-> NoTests],
   [scorer |-> "cruxeval", mode |-> "input", completion |-> <<"a", "s", "s", "e", "r", "t", " ", "3", " ", "=", "=", " ", "3">>,
    ref_input |-> <<"6">>, ref_output |-> <<"3">>, setup |-> NoneVal, tests |-> NoTests],
   [scorer |-> "mbpp", mode |-> "", completion |-> <<"[", "B", "E", "G", "I", "N", "]", "p", "a", "s", "s", "[", "D", "O", "N", "E", "]">>,
    ref_input |-> <<>>, ref_output |-> <<>>, setup |-> <<"i", "m", "p", "o", "r", "t", " ", "r", "e">>,
    tests |-> [kind |-> "list", val |-> <<<<"a", "s", "s", "e", "r", "t", " ", "g", "(", "1", ")">>, <<"a", "s", "s", "e", "r", "t", " ", "g", "(", "2", ")">>>>]],
   [scorer |-> "mbpp", mode |-> "", completion |-> <<>>,
    ref_input |-> <<>>, ref_output |-> <<>>, setup |-> NoneVal,
    tests |-> [kind |-> "str", val |-> <<"a", "s", "s", "e", "r", "t", " ", "g", "(", "1", ")", "\n", "\n">>]]}

\* every call of score shares one frame (a mutation that C16 must detect)
Frame_Shared(t) == 1

\* the frame that holds the local variables of task t's call of score: every
\* call has its own, and score reads and writes nothing else
Frame(t) == t

NoFrame ==
  [scorer |-> "", mode |-> "", ref_input |-> <<>>, ref_output |-> <<>>,
   tests |-> <<>>, candidate |-> <<>>, program |-> <<>>, timeout |-> 0,
   gate |-> "none"]

\* score of cruxeval_verify up to its first return or await: the locals
CruxBefore(s) ==
  LET raw == IF s.completion = NoneVal THEN <<>> ELSE s.completion
      cand == extract_candidate(raw, s.mode, Variant)
      gate == CruxGate(s.mode, cand, s.ref_input)
  IN [scorer |-> "cruxeval", mode |-> s.mode, ref_input |-> s.ref_input,
      ref_output |-> s.ref_output, tests |-> <<>>, candidate |-> cand,
      program |-> IF gate = "run"
                  THEN verify_code(Code, Expected(s.mode, s.ref_input, s.ref_output), cand)
                  ELSE <<>>,
      timeout |-> TIMEOUT,
      gate |-> gate]

\* score of mbpp_verify up to its first return or await: the locals
MbppBefore(s) ==
  LET cand == _extract_code(s.completion)
      tl == _normalize_tests(s.tests)
  IN [scorer |-> "mbpp", mode |-> "", ref_input |-> <<>>, ref_output |-> <<>>,
      tests |-> tl, candidate |-> cand,
      program |-> _assemble_program(s.setup, cand, tl),
      timeout |-> DefaultTimeout,
      gate |-> IF cand = <<>> THEN "no_candidate" ELSE "run"]

ScoreBefore(s) == IF s.scorer = "cruxeval" THEN CruxBefore(s) ELSE MbppBefore(s)

\* the Score returned without an execution, from the locals f
ScoreEarly(f) ==
  IF f.scorer = "cruxeval"
  THEN CruxRejection(f.gate, Code, f.ref_input, f.ref_output, f.candidate)
  ELSE Score(INCORRECT, <<>>,
             <<"N", "o", " ", "c", "a", "n", "d", "i", "d", "a", "t", "e", " ", "c", "o", "d", "e", " ", "f", "o", "u", "n", "d", ".", "\n", "\n">>
             \o <<"T", "h", "e", " ", "f", "o", "l", "l", "o", "w", "i", "n", "g", " ", "v", "e", "r", "i", "f", "i", "c", "a", "t", "i", "o", "n", " ", "c", "o", "d", "e", " ", "w", "a", "s", " ", "e", "x", "e", "c", "u", "t", "e", "d", ":", "\n", "\n", BQ, BQ, BQ, "p", "y", "t", "h", "o", "n", "\n">>
             \o f.program
             \o <<"\n", BQ, BQ, BQ, "\n">>,
             [task_id |-> TaskId])

NoError == [type |-> <<>>, msg |-> <<>>]

NoEvent == [kind |-> "none", result |-> NoResult, error |-> NoError]

\* the ways the await of sandbox().exec may end for the program cmd: an
\* ExecResult or an exception
AwaitOutcomes(scorerName, cmd) ==
  {[kind |-> IF r.success THEN "exit0" ELSE "nonzero", result |-> r, error |-> NoError] :
     r \in IF scorerName = "cruxeval" THEN CruxProcessResults(cmd)
           ELSE MbppProcessResults(cmd)}
  \cup {[kind |-> "timeout", result |-> NoResult, error |-> TimeoutError]}
  \cup {[kind |-> "launchfail", result |-> NoResult, error |-> e] : e \in LaunchErrors}
  \cup {[kind |-> "cancelled", result |-> NoResult, error |-> CancelledError]}

\* the exception of the await leaves score
Propagates(f, ev) == f.scorer = "mbpp" /\ ev.kind = "cancelled"

\* the Score returned after the await ended as ev, from the locals f
ScoreAfter(f, ev) ==
  IF f.scorer = "cruxeval"
  THEN CruxResolve(IF ev.kind \in {"exit0", "nonzero"} THEN ev.result ELSE CruxFold(ev.error),
                   Code, f.ref_input, f.ref_output, f.candidate)
  ELSE MbppResolve(IF ev.kind \in {"exit0", "nonzero"} THEN ev.result
                   ELSE IF ev.kind = "timeout" THEN MbppFoldTimeout
                   ELSE MbppFoldError(ev.error),
                   f.program, f.candidate, f.tests, f.timeout)

\* no single verification beside the concurrent ones
NoSingle ==
  /\ scorer = "none"
  /\ mode = ""
  /\ completion = <<>>
  /\ ref_input = <<>>
  /\ ref_output = <<>>
  /\ setup = NoneVal
  /\ tests = NoTests
  /\ pc = "pending"
  /\ candidate = <<>>
  /\ call = NoCall
  /\ outcome = NoOutcome
  /\ result = NoResult
  /\ score = NoScore
  /\ execCount = 0
  /\ raised = ""

single == <<inputs, pc, candidate, call, outcome, result, score, execCount, raised>>

InitConc ==
  /\ NoSingle
  /\ taskInput \in [Tasks -> ConcSamples]
  /\ taskPc = [t \in Tasks |-> "pending"]
  /\ frames = [t \in Tasks |-> NoFrame]
  /\ taskCall = [t \in Tasks |-> NoCall]
  /\ taskOutcome = [t \in Tasks |-> NoEvent]
  /\ taskScore = [t \in Tasks |-> NoScore]
  /\ overlapped = [t \in Tasks |-> FALSE]

\* task t runs score from its call to its first return, raise or await
TaskStart(t) ==
  /\ taskPc[t] = "pending"
  /\ frames' = [frames EXCEPT ![Frame(t)] = ScoreBefore(taskInput[t])]
  /\ LET f == frames'[Frame(t)]
     IN /\ taskPc' = [taskPc EXCEPT ![t] = IF f.gate = "run" THEN "awaiting"
                                            ELSE IF f.gate = "raise" THEN "raised"
                                            ELSE "done"]
        /\ taskCall' = [taskCall EXCEPT ![t] =
                          IF f.gate = "run" THEN [cmd |-> f.program, timeout |-> f.timeout]
                          ELSE NoCall]
        /\ taskScore' = [taskScore EXCEPT ![t] =
                           IF f.gate \in {"run", "raise"} THEN NoScore ELSE ScoreEarly(f)]
  /\ overlapped' = [u \in Tasks |-> overlapped[u] \/ (u # t /\ taskPc[u] = "awaiting")]
  /\ UNCHANGED <<single, taskInput, taskOutcome>>

\* the await of task t ends and task t runs score to its end
TaskResume(t) ==
  /\ taskPc[t] = "awaiting"
  /\ \E ev \in AwaitOutcomes(taskInput[t].scorer, taskCall[t].cmd) :
       LET f == frames[Frame(t)]
       IN /\ taskOutcome' = [taskOutcome EXCEPT ![t] = ev]
          /\ taskPc' = [taskPc EXCEPT ![t] = IF Propagates(f, ev) THEN "cancelled" ELSE "done"]
          /\ taskScore' = [taskScore EXCEPT ![t] =
                             IF Propagates(f, ev) THEN NoScore ELSE ScoreAfter(f, ev)]
  /\ overlapped' = [u \in Tasks |-> overlapped[u] \/ (u # t /\ taskPc[u] = "awaiting")]
  /\ UNCHANGED <<single, taskInput, frames, taskCall>>

NextConc == \E t \in Tasks : TaskStart(t) \/ TaskResume(t)

SpecConc == InitConc /\ [][NextConc]_vars

(***************************************************************************)
(* Properties.                                                             *)
(***************************************************************************)
Finished == pc \in {"done", "raised", "cancelled"}

Executed == pc = "done" /\ execCount = 1

\* the child process was launched and ended within the time budget
ProcessEnded == outcome.kind \in {"exit0", "nonzero"}

\* C1: whatever the completion, the mode and the executor's outcome, a
\* verification returns a Score: no exception leaves score.
C1_AlwaysReturnsVerdict ==
  /\ raised = ""
  /\ pc # "raised"
  /\ pc = "done" => score.value \in {CORRECT, INCORRECT}

\* C2: extract_candidate returns a str, never None, for every completion in
\* both modes, also for an assert statement without a call to f in input mode.
C2_CandidateIsStr ==
  (scorer = "cruxeval" /\ pc # "pending") => candidate # NoneVal

\* the verification is on a rejection path: input mode and no "f(" in the
\* candidate, output mode and the call echoed, an unknown mode, or no code
RejectionPath ==
  \/ /\ scorer = "cruxeval"
     /\ mode = "input"
     /\ (candidate = NoneVal \/ ~Contains(candidate, <<"f", "(">>))
  \/ /\ scorer = "cruxeval"
     /\ mode = "output"
     /\ Contains(candidate, <<"f", "(">> \o ref_input \o <<")">>)
  \/ /\ scorer = "cruxeval"
     /\ mode \notin {"input", "output"}
  \/ /\ scorer = "mbpp"
     /\ candidate = <<>>

C4_CorrectIffSuccess ==
  Executed =>
    /\ (score.value = CORRECT) <=> (outcome.kind = "exit0")
    /\ score.value \in {CORRECT, INCORRECT}
    /\ scorer = "mbpp" => (score.metadata.exit_success <=> (outcome.kind = "exit0"))

C4_Witness ==
  /\ Executed
  /\ scorer = "mbpp"
  /\ outcome.kind = "exit0"
  /\ score.value = CORRECT
  /\ score.metadata.exit_success

\* C5: in input mode a candidate without a call gets the verdict Incorrect with
\* the note about the missing f(...) call, and sandbox().exec is never called.
C5_MissingCallRejected ==
  (/\ scorer = "cruxeval"
   /\ mode = "input"
   /\ pc # "pending"
   /\ (candidate = NoneVal \/ ~Contains(candidate, <<"f", "(">>)))
    => /\ pc = "done"
       /\ score.value = INCORRECT
       /\ Contains(score.explanation, MissingCallNote)
       /\ execCount = 0

\* the candidate is the call of f on the reference input
IsEchoOfCall(cand, input) ==
  /\ IsCallOfF(TrimSp(cand))
  /\ CallArg(TrimSp(cand)) = input

\* C6: in output mode a candidate that is itself the call f(<ref_input>) gets the
\* verdict Incorrect and never reaches sandbox().exec.
C6_EchoRejected ==
  (/\ scorer = "cruxeval"
   /\ mode = "output"
   /\ pc # "pending"
   /\ IsEchoOfCall(candidate, ref_input))
    => /\ execCount = 0
       /\ pc = "done"
       /\ score.value = INCORRECT

\* the value the reference code returns on the reference input
TrueResult == RefF(DecValue(ref_input))

\* C7 as stated: in output mode a candidate that equals the true result is
\* Correct and a candidate that differs from it is Incorrect (read for the
\* candidates output mode asks for, the literals).
C7_OutputVerdictIsEquality ==
  (/\ scorer = "cruxeval"
   /\ mode = "output"
   /\ pc = "done"
   /\ IsIntLiteral(candidate))
    => ((score.value = CORRECT) <=> (DecValue(candidate) = TrueResult))

\* C7, amended: in output mode, for a candidate that is a single literal, when
\* the child process was launched and ended within the time budget, the verdict
\* is Correct if the literal equals the true result and Incorrect if it differs.
C7_LiteralVerdictIsEquality ==
  (/\ scorer = "cruxeval"
   /\ mode = "output"
   /\ pc = "done"
   /\ ProcessEnded
   /\ IsIntLiteral(candidate))
    => ((score.value = CORRECT) <=> (DecValue(candidate) = TrueResult))

C7_Witness ==
  /\ scorer = "cruxeval"
  /\ mode = "output"
  /\ pc = "done"
  /\ ProcessEnded
  /\ candidate = <<"3">>
  /\ ref_input = <<"6">>
  /\ score.value = CORRECT

\* C8 as stated: in input mode every candidate call that evaluates to
\* ref_output is Correct and every candidate call that evaluates to another
\* value is Incorrect, whatever ref_input is.
C8_InputVerdictIsCallValue ==
  (/\ scorer = "cruxeval"
   /\ mode = "input"
   /\ pc = "done"
   /\ IsCallOfF(candidate))
    => ((score.value = CORRECT) <=> (AtomValue(candidate) = DecValue(ref_output)))

\* C8, amended: in input mode, when the child process was launched and ended
\* within the time budget, a candidate call is Correct exactly when it evaluates
\* to ref_output, whatever ref_input is.
C8_CallVerdictWhenProcessEnded ==
  (/\ scorer = "cruxeval"
   /\ mode = "input"
   /\ pc = "done"
   /\ ProcessEnded
   /\ IsCallOfF(candidate))
    => ((score.value = CORRECT) <=> (AtomValue(candidate) = DecValue(ref_output)))

C8_Witness ==
  /\ scorer = "cruxeval"
  /\ mode = "input"
  /\ pc = "done"
  /\ ProcessEnded
  /\ candidate = <<"f", "(", "6", ")">>
  /\ ref_input = <<"7">>
  /\ ref_output = <<"3">>
  /\ score.value = CORRECT

\* C9: in both scorers a timeout of the child process ends the verification
\* with the verdict Incorrect and an explanation that says "timed out".
C9_TimeoutNoted ==
  (pc = "done" /\ outcome.kind = "timeout")
    => /\ score.value = INCORRECT
       /\ Contains(score.explanation, <<"t", "i", "m", "e", "d", " ", "o", "u", "t">>)

\* C10: in both scorers a failure to launch the child process gives the verdict
\* Incorrect, and the text of the error is kept in the result's stderr and
\* shown in the explanation.
C10_LaunchErrorPreserved ==
  (pc = "done" /\ outcome.kind = "launchfail")
    => /\ score.value = INCORRECT
       /\ Contains(result.stderr, outcome.error)
       /\ Contains(score.explanation, outcome.error)

\* C11: the program text shown in the explanation is the program text handed
\* to sandbox().exec, and on failure the explanation holds the captured stderr.
C11_ExplanationShowsProgram ==
  Executed =>
    /\ Contains(score.explanation, call.cmd)
    /\ score.value = INCORRECT => Contains(score.explanation, result.stderr)

\* C12: the answer of every Score, rejections included, is the extracted
\* candidate.
C12_AnswerIsCandidate ==
  pc = "done" => score.answer = candidate

\* C13: the metadata of every Score names the mode, the timeout in seconds and
\* whether the process exited zero.
C13_MetadataFields ==
  pc = "done" =>
    LET fields == DOMAIN score.metadata
    IN /\ "mode" \in fields
       /\ "timeout_s" \in fields \/ "timeout_seconds" \in fields
       /\ "exit_success" \in fields \/ "exited_zero" \in fields

\* the text extract_candidate normalises: the answer span or the last
\* non-empty line, stripped and without its code fence (s in the source)
extracted_text(raw) ==
  LET text == Strip(raw)
      tagged == _between(text, ANSWER_OPEN, ANSWER_CLOSE)
      lines == NonEmpty(StripEach(SplitLines(text)))
      inside == IF tagged = NoneVal
                THEN (IF Len(lines) > 0 THEN lines[Len(lines)] ELSE <<>>)
                ELSE tagged
  IN _strip_first_fenced_block(Strip(inside))

\* the trimmed contents of the first [ANSWER]...[/ANSWER] span, NoneVal without one
AnswerSpan == _between(Strip(CruxRaw), ANSWER_OPEN, ANSWER_CLOSE)

\* the span already is the expression asked for: no fence, no assert statement,
\* no "=="
PlainSpan ==
  /\ AnswerSpan # NoneVal
  /\ extracted_text(CruxRaw) = AnswerSpan
  /\ ~StartsWith(AnswerSpan, <<"a", "s", "s", "e", "r", "t", " ">>)
  /\ ~Contains(AnswerSpan, <<"=", "=">>)

\* C14: for a completion with a well-formed answer span, extract_candidate
\* returns exactly the trimmed contents of the span, in both modes (stated for
\* the spans that are no assert statement, hold no "==" and are not fenced).
C14_SpanReturnedExactly ==
  (/\ scorer = "cruxeval"
   /\ mode \in {"input", "output"}
   /\ pc # "pending"
   /\ PlainSpan)
    => candidate = AnswerSpan

SentinelPrint == <<"p", "r", "i", "n", "t", "(", "\"", "_", "_", "M", "B", "P", "P", "_", "O", "K", "_", "_", "\"", ")">>

Sentinel == <<"_", "_", "M", "B", "P", "P", "_", "O", "K", "_", "_">>

\* C15: the program mbpp_verify assembles ends with the print of the sentinel,
\* and a Correct verdict needs the sentinel in the captured stdout (every check
\* statement ran).
C15_SentinelRequired ==
  (scorer = "mbpp" /\ Executed) =>
    /\ EndsWith(call.cmd, SentinelPrint)
    /\ score.value = CORRECT => Contains(result.stdout, Sentinel)

\* the Score task t gets when it runs alone and its await ends as it did
VerdictAlone(t) ==
  LET f == ScoreBefore(taskInput[t])
  IN IF f.gate = "run" THEN ScoreAfter(f, taskOutcome[t]) ELSE ScoreEarly(f)

\* C16: with verifications interleaved at their awaits in any order, the Score
\* of each (value, answer, explanation, metadata) is the one it gets alone, and
\* a step of one task changes neither the frame nor the Score of another.
C16_VerdictAsAlone ==
  /\ [](\A t \in Tasks :
          /\ taskPc[t] = "done" => taskScore[t] = VerdictAlone(t)
          /\ taskPc[t] = "awaiting" => frames[Frame(t)] = ScoreBefore(taskInput[t])
          /\ taskPc[t] \in {"raised", "cancelled"} => taskScore[t] = NoScore)
  /\ [][\A t \in Tasks :
          taskPc'[t] = taskPc[t]
            => /\ frames'[Frame(t)] = frames[Frame(t)]
               /\ taskScore'[t] = taskScore[t]
               /\ taskCall'[t] = taskCall[t]]_vars

\* two verifications of different samples, each suspended while the other ran,
\* both executed and scored
C16_Witness ==
  /\ taskInput # <<>>
  /\ taskInput[1] # taskInput[2]
  /\ \A t \in {1, 2} :
       /\ taskPc[t] = "done"
       /\ overlapped[t]
       /\ taskOutcome[t].kind \in {"exit0", "nonzero"}

\* C17: a cancellation by the caller while score awaits sandbox().exec ends the
\* verification: score returns no Score as if the execution had merely failed.
C17_CancellationEndsVerification ==
  outcome.kind = "cancelled" => (pc = "cancelled" /\ score = NoScore)

\* s is a full statement assert <lhs> == <rhs>
IsFullAssert(s) == StartsWith(s, <<"a", "s", "s", "e", "r", "t", " ">>) /\ Contains(s, <<"=", "=">>)

\* the last position where sub occurs in s, 0 when it does not
FindLast(s, sub) ==
  LET hits == {i \in 1..(Len(s) - Len(sub) + 1) : SubSeq(s, i, i + Len(sub) - 1) = sub}
  IN IF hits = {} THEN 0 ELSE SetMax(hits)

\* C18: in output mode a full assert statement is split once at the first "=="
\* and the whole right-hand side is returned, also when it contains "==".
C18_AssertRhsWhole ==
  (/\ scorer = "cruxeval"
   /\ mode = "output"
   /\ pc # "pending"
   /\ IsFullAssert(extracted_text(CruxRaw)))
    => candidate = Strip(From(extracted_text(CruxRaw),
                              Find(extracted_text(CruxRaw), <<"=", "=">>, 1) + 2))

\* C19 as stated: in output mode, text that is no full assert statement gives
\* the text after its last "==", trimmed, or the whole text without "==".
C19_AfterLastEquality ==
  (/\ scorer = "cruxeval"
   /\ mode = "output"
   /\ pc # "pending"
   /\ ~IsFullAssert(extracted_text(CruxRaw)))
    => candidate =
         IF Contains(extracted_text(CruxRaw), <<"=", "=">>)
         THEN Strip(From(extracted_text(CruxRaw),
                         FindLast(extracted_text(CruxRaw), <<"=", "=">>) + 2))
         ELSE extracted_text(CruxRaw)

\* C19, amended: in output mode, text that is no full assert statement gives
\* the text after its first "==", trimmed, or the whole text without "==".
C19_AfterFirstEquality ==
  (/\ scorer = "cruxeval"
   /\ mode = "output"
   /\ pc # "pending"
   /\ ~IsFullAssert(extracted_text(CruxRaw)))
    => candidate =
         IF Contains(extracted_text(CruxRaw), <<"=", "=">>)
         THEN Strip(From(extracted_text(CruxRaw),
                         Find(extracted_text(CruxRaw), <<"=", "=">>, 1) + 2))
         ELSE extracted_text(CruxRaw)

C19_Witness ==
  /\ scorer = "cruxeval"
  /\ mode = "output"
  /\ pc # "pending"
  /\ extracted_text(CruxRaw) = <<"3", " ", "=", "=", " ", "3", " ", "=", "=", " ", "3">>
  /\ candidate = <<"3", " ", "=", "=", " ", "3">>

\* s holds a call f(<args>): "f(" and, later on the same line, ")"
HasCallOfF(s) ==
  \E i \in 1..Len(s) : \E j \in (i + 2)..Len(s) :
    /\ SubSeq(s, i, i + 1) = <<"f", "(">>
    /\ s[j] = ")"
    /\ \A m \in i..j : s[m] # "\n"

\* C20: in input mode, when the extracted text holds a call f(<args>), the
\* candidate is a substring of it that starts with "f(" and ends with the
\* closing parenthesis: the bare call f(<args>) gives the candidate f(<args>).
C20_CandidateIsCall ==
  (/\ scorer = "cruxeval"
   /\ mode = "input"
   /\ pc # "pending"
   /\ HasCallOfF(extracted_text(CruxRaw)))
    => /\ candidate # NoneVal
       /\ StartsWith(candidate, <<"f", "(">>)
       /\ EndsWith(candidate, <<")">>)
       /\ Contains(extracted_text(CruxRaw), candidate)

\* the separator _assemble_program puts between two sections
SectionSep == <<"\n", "\n">>

\* the program _assemble_program built: the one handed to sandbox().exec, or
\* the one shown in the explanation when there is no candidate code
AssembledProgram ==
  IF execCount = 1 THEN call.cmd
  ELSE SubSeq(score.explanation,
              Len(<<"N", "o", " ", "c", "a", "n", "d", "i", "d", "a", "t", "e", " ", "c", "o", "d", "e", " ", "f", "o", "u", "n", "d", ".", "\n", "\n">>)
                + Len(<<"T", "h", "e", " ", "f", "o", "l", "l", "o", "w", "i", "n", "g", " ", "v", "e", "r", "i", "f", "i", "c", "a", "t", "i", "o", "n", " ", "c", "o", "d", "e", " ", "w", "a", "s", " ", "e", "x", "e", "c", "u", "t", "e", "d", ":", "\n", "\n", BQ, BQ, BQ, "p", "y", "t", "h", "o", "n", "\n">>) + 1,
              Len(score.explanation) - Len(<<"\n", BQ, BQ, BQ, "\n">>))

\* the test entries as provided: the items of a list, the lines of a str
ProvidedEntries ==
  IF tests.kind = "list" THEN tests.val
  ELSE IF tests.kind = "str" THEN SplitLines(tests.val)
  ELSE <<>>

\* the provided entries that are not empty or blank, in their order
KeptEntries == SelectSeq(ProvidedEntries, LAMBDA e : Strip(e) # <<>>)

\* the setup section with its separator, nothing for a missing or blank setup
SetupSection ==
  IF setup = NoneVal \/ Strip(setup) = <<>> THEN <<>> ELSE Strip(setup) \o SectionSep

\* the check section after its separator, nothing without entries
ChecksSection(entries) ==
  IF entries = <<>> THEN <<>> ELSE SectionSep \o Join(entries, <<"\n">>)

\* C21 as stated: the program is the setup, then the candidate, then the
\* checks, and the checks are the provided entries in their order, unaltered,
\* without the empty ones.
C21_ChecksVerbatim ==
  (scorer = "mbpp" /\ pc \in {"awaiting", "done"})
    => AssembledProgram = SetupSection \o Strip(candidate) \o ChecksSection(KeptEntries)

\* C21, amended: the program is the setup, then the candidate, then the
\* checks, and the checks are the provided entries in their order, none
\* reordered or duplicated, each without its trailing whitespace, without the
\* empty and the blank ones.
C21_ChecksInOrder ==
  (scorer = "mbpp" /\ pc \in {"awaiting", "done"})
    => AssembledProgram =
         SetupSection \o Strip(candidate)
           \o ChecksSection([i \in 1..Len(KeptEntries) |-> RStrip(KeptEntries[i])])

C21_Witness ==
  /\ scorer = "mbpp"
  /\ pc = "awaiting"
  /\ setup = <<"i", "m", "p", "o", "r", "t", " ", "r", "e">>
  /\ tests.kind = "list"
  /\ Len(KeptEntries) = 2
  /\ Len(ProvidedEntries) = 3
  /\ KeptEntries[1] # RStrip(KeptEntries[1])
  /\ call.cmd = <<"i", "m", "p", "o", "r", "t", " ", "r", "e", "\n", "\n", "p", "a", "s", "s", "\n", "\n", "a", "s", "s", "e", "r", "t", " ", "g", "(", "2", ")", "\n", "a", "s", "s", "e", "r", "t", " ", "g", "(", "1", ")">>

\* C22: _assemble_program leaves out every empty section: the program neither
\* starts nor ends with the separator, and with an empty candidate it holds no
\* two separators in a row.
C22_NoBlankSection ==
  (scorer = "mbpp" /\ pc \in {"awaiting", "done"})
    => /\ ~StartsWith(AssembledProgram, SectionSep)
       /\ ~EndsWith(AssembledProgram, SectionSep)
       /\ candidate = <<>> => ~Contains(AssembledProgram, SectionSep \o SectionSep)

====
